---- MODULE Spec2Model ----
(***************************************************************************)
(* State machine of the FaceRecorder component (src/README.md:161-594).    *)
(*                                                                         *)
(* React state is kept in two layers.  The variables named after the       *)
(* useState hooks hold the value the update queue will produce (the last   *)
(* value written by a setter).  `rendered` holds the values captured by    *)
(* the closures of the last committed render: the event handlers and the   *)
(* effects all read these.  Updates made inside a click handler are        *)
(* committed synchronously with the handler (discrete events), updates     *)
(* made by promise continuations, timers, media events and window events   *)
(* are committed by the separately scheduled Render step.                  *)
(***************************************************************************)
EXTENDS Integers, Sequences, FiniteSets, TLC

\* ------------------------------------------------------------------ bounds
MaxSessions == 2
MaxSegments == 1
MaxCycles == 2
MaxResizes == 1
MaxTime == 1

\* ------------------------------------------------------- program constants
DefaultWidth == 640
DefaultHeight == 480
WidthCap == 800
WidthMargin == 40

\* window.innerWidth values the environment may report
Widths == {360, 1024}

\* faces a single inference may report; a result is a set of faces
Faces == {1}
Results == SUBSET Faces

NoError == "none"
ErrModels == "Failed to load face detection models"
ErrCamera == "Unable to access camera"
ErrCanvas == "Canvas not ready for recording"
ErrRecord == "Failed to start recording"
Errors == {NoError, ErrModels, ErrCamera, ErrCanvas, ErrRecord}

VARIABLES
  mounted,            \* the component instance is mounted (refs attached)
  recording, videoURL, modelsLoaded, cameraReady, error,
  faceDetected, recordingTime, videoDimensions,
  dimsDirty,          \* setVideoDimensions stored a new object since the last render
  rendered,           \* state values captured by the closures of the last render
  recorderRef, recordedChunks, detectionIntervalRef, streamRef,
  canvasChild,        \* canvasRef.current.firstChild (0: the container is empty)
  srcObject,          \* videoRef.current.srcObject (0: none)
  innerWidth, nResizes,
  loadsPending,       \* loadModels calls whose Promise.all has not settled
  cameraPending,      \* getUserMedia calls that have not settled
  playPending,        \* the video element will fire 'play' for its srcObject
  nStreams, liveStreams,
  timers, liveTimers, \* detection intervals: closures, and the ones not cleared
  canvases,           \* canvases created by setupCanvas: dimensions and drawings
  cycles,             \* detection cycles in start order
  recorders,          \* MediaRecorder objects in creation order
  delivered,          \* per recorder: non-empty segments its ondataavailable got
  artifacts,          \* blobs sealed by onstop, indexed by object URL
  liveHandles,        \* object URLs created and not revoked
  uncaught,           \* an exception escaped a handler
  stopIgnored         \* stopRecording was called directly and did nothing

vars == <<mounted, recording, videoURL, modelsLoaded, cameraReady, error,
          faceDetected, recordingTime, videoDimensions, dimsDirty, rendered,
          recorderRef, recordedChunks, detectionIntervalRef, streamRef,
          canvasChild, srcObject, innerWidth, nResizes, loadsPending,
          cameraPending, playPending, nStreams, liveStreams, timers,
          liveTimers, canvases, cycles, recorders, delivered, artifacts,
          liveHandles, uncaught, stopIgnored>>

reactVars == <<recording, videoURL, modelsLoaded, cameraReady, error,
               faceDetected, recordingTime, videoDimensions, dimsDirty,
               rendered>>
refVars == <<recorderRef, recordedChunks, detectionIntervalRef, streamRef,
             canvasChild, srcObject>>
windowVars == <<innerWidth, nResizes>>
cameraVars == <<cameraPending, playPending, nStreams, liveStreams>>
detectVars == <<timers, liveTimers, canvases, cycles>>
recordVars == <<recorders, delivered, artifacts, liveHandles>>
callVars == <<uncaught, stopIgnored>>

\* ----------------------------------------------------------------- helpers
Min(a, b) == IF a < b THEN a ELSE b

\* calculateDimensions: width = min(innerWidth - 40, 800), height = width / (4/3)
calculateDimensions(w) ==
  LET width == Min(w - WidthMargin, WidthCap)
  IN  [width |-> width, height |-> (width * 3) \div 4]

\* useState initial value of videoDimensions
InitialDimensions == [width |-> DefaultWidth, height |-> DefaultHeight]

\* videoRef.current / canvasRef.current are attached exactly while mounted
videoRefCurrent == mounted
canvasRefCurrent == mounted

\* a default-priority update is waiting for a render that changes a closure
NeedsRender ==
  \/ rendered.videoURL # videoURL
  \/ rendered.modelsLoaded # modelsLoaded
  \/ rendered.cameraReady # cameraReady
  \/ dimsDirty

\* ------------------------------------------------------------------- Init
\* State after the first render and its mount effects: the initialize effect
\* has called calculateDimensions() and loadModels(); the start-camera effect
\* saw modelsLoaded = false; the play listener is registered.
Init ==
  /\ mounted = TRUE
  /\ recording = FALSE
  /\ videoURL = 0
  /\ modelsLoaded = FALSE
  /\ cameraReady = FALSE
  /\ error = NoError
  /\ faceDetected = FALSE
  /\ recordingTime = 0
  /\ innerWidth \in Widths
  /\ videoDimensions = calculateDimensions(innerWidth)
  /\ dimsDirty = TRUE
  /\ rendered = [videoURL |-> 0, modelsLoaded |-> FALSE, cameraReady |-> FALSE,
                 videoDimensions |-> InitialDimensions]
  /\ recorderRef = 0
  /\ recordedChunks = <<>>
  /\ detectionIntervalRef = 0
  /\ streamRef = 0
  /\ canvasChild = 0
  /\ srcObject = 0
  /\ nResizes = 0
  /\ loadsPending = 1
  /\ cameraPending = 0
  /\ playPending = FALSE
  /\ nStreams = 0
  /\ liveStreams = {}
  /\ timers = <<>>
  /\ liveTimers = {}
  /\ canvases = <<>>
  /\ cycles = <<>>
  /\ recorders = <<>>
  /\ delivered = <<>>
  /\ artifacts = <<>>
  /\ liveHandles = {}
  /\ uncaught = FALSE
  /\ stopIgnored = FALSE

\* ------------------------------------------------------------ model loading
\* loadModels: Promise.all resolved -> setModelsLoaded(true)
LoadSucceeded ==
  /\ loadsPending > 0
  /\ loadsPending' = loadsPending - 1
  /\ modelsLoaded' = IF mounted THEN TRUE ELSE modelsLoaded
  /\ UNCHANGED <<mounted, recording, videoURL, cameraReady, error,
                 faceDetected, recordingTime, videoDimensions, dimsDirty,
                 rendered, refVars, windowVars, cameraVars, detectVars,
                 recordVars, callVars>>

\* loadModels: Promise.all rejected -> setError(...)
LoadFailed ==
  /\ loadsPending > 0
  /\ loadsPending' = loadsPending - 1
  /\ error' = IF mounted THEN ErrModels ELSE error
  /\ UNCHANGED <<mounted, recording, videoURL, modelsLoaded, cameraReady,
                 faceDetected, recordingTime, videoDimensions, dimsDirty,
                 rendered, refVars, windowVars, cameraVars, detectVars,
                 recordVars, callVars>>

\* ------------------------------------------------------------------ camera
\* startCamera: getUserMedia resolved with a new stream
CameraGranted ==
  /\ cameraPending > 0
  /\ cameraPending' = cameraPending - 1
  /\ nStreams' = nStreams + 1
  /\ liveStreams' = liveStreams \cup {nStreams + 1}
  /\ streamRef' = nStreams + 1
  /\ IF videoRefCurrent
       THEN /\ srcObject' = nStreams + 1
            /\ cameraReady' = TRUE
            /\ playPending' = TRUE
       ELSE UNCHANGED <<srcObject, cameraReady, playPending>>
  /\ UNCHANGED <<mounted, recording, videoURL, modelsLoaded, error,
                 faceDetected, recordingTime, videoDimensions, dimsDirty,
                 rendered, recorderRef, recordedChunks, detectionIntervalRef,
                 canvasChild, windowVars, loadsPending, detectVars,
                 recordVars, callVars>>

\* startCamera: getUserMedia rejected -> setError(...)
CameraDenied ==
  /\ cameraPending > 0
  /\ cameraPending' = cameraPending - 1
  /\ error' = IF mounted THEN ErrCamera ELSE error
  /\ UNCHANGED <<mounted, recording, videoURL, modelsLoaded, cameraReady,
                 faceDetected, recordingTime, videoDimensions, dimsDirty,
                 rendered, refVars, windowVars, loadsPending, playPending,
                 nStreams, liveStreams, detectVars, recordVars, callVars>>

\* window 'resize' -> handleResize -> calculateDimensions
Resize ==
  /\ mounted
  /\ nResizes < MaxResizes
  /\ \E w \in Widths :
       /\ innerWidth' = w
       /\ videoDimensions' = calculateDimensions(w)
  /\ nResizes' = nResizes + 1
  /\ dimsDirty' = TRUE
  /\ UNCHANGED <<mounted, recording, videoURL, modelsLoaded, cameraReady,
                 error, faceDetected, recordingTime, rendered, refVars,
                 loadsPending, cameraVars, detectVars, recordVars, callVars>>

\* ------------------------------------------------------------------ cleanup
\* cleanup(): clearInterval(detectionIntervalRef.current)
cleanupTimers == liveTimers \ {detectionIntervalRef}

\* cleanup(): streamRef.current.getTracks().forEach(track => track.stop())
cleanupStreams == liveStreams \ {streamRef}

\* cleanup(): URL.revokeObjectURL(videoURL), videoURL being the value the
\* closure captured at the render that created this cleanup
cleanupHandles == IF rendered.videoURL # 0
                    THEN liveHandles \ {rendered.videoURL}
                    ELSE liveHandles

\* ------------------------------------------------------------------ render
\* Commit of the pending default-priority updates, followed by the effects
\* whose dependencies changed, in declaration order:
\*   initialize effect  [calculateDimensions, loadModels, cleanup]: cleanup
\*     has a new identity exactly when videoURL changed; the old effect's
\*     return function runs cleanup(), then the body calls
\*     calculateDimensions() and loadModels() again;
\*   start-camera effect [modelsLoaded, startCamera]: startCamera has a new
\*     identity exactly when videoDimensions is a new object;
\*   play-listener effect: re-registers handlePlay with the new closure.
Render ==
  /\ mounted
  /\ NeedsRender
  /\ LET urlChanged == rendered.videoURL # videoURL
         camDeps == rendered.modelsLoaded # modelsLoaded \/ dimsDirty
         callCamera == camDeps /\ modelsLoaded
     IN  /\ rendered' = [videoURL |-> videoURL, modelsLoaded |-> modelsLoaded,
                         cameraReady |-> cameraReady,
                         videoDimensions |-> videoDimensions]
         /\ liveTimers' = IF urlChanged THEN cleanupTimers ELSE liveTimers
         /\ liveStreams' = IF urlChanged THEN cleanupStreams ELSE liveStreams
         /\ liveHandles' = IF urlChanged THEN cleanupHandles ELSE liveHandles
         /\ videoDimensions' = IF urlChanged
                                 THEN calculateDimensions(innerWidth)
                                 ELSE videoDimensions
         /\ dimsDirty' = urlChanged
         /\ loadsPending' = IF urlChanged THEN loadsPending + 1 ELSE loadsPending
         /\ cameraPending' = IF callCamera THEN cameraPending + 1 ELSE cameraPending
         /\ error' = IF urlChanged \/ callCamera THEN NoError ELSE error
  /\ UNCHANGED <<mounted, recording, videoURL, modelsLoaded, cameraReady,
                 faceDetected, recordingTime, refVars, windowVars,
                 playPending, nStreams, timers, canvases, cycles, recorders,
                 delivered, artifacts, callVars>>

\* --------------------------------------------------------------- detection
\* handlePlay without its readiness test
handlePlayReady_unchecked == TRUE

\* handlePlay: if (modelsLoaded && cameraReady) startFaceDetection()
handlePlayReady == rendered.modelsLoaded /\ rendered.cameraReady

\* setupCanvas: createCanvasFromMedia + matchDimensions(canvas, videoDimensions)
setupCanvas == [dims |-> rendered.videoDimensions, content |-> {}]

\* the closure of the setInterval callback created by startFaceDetection
intervalClosure(canvas) ==
  [canvas |-> canvas, modelsLoaded |-> rendered.modelsLoaded,
   dims |-> rendered.videoDimensions]

\* a timer installed without cancelling the one stored in the ref
clearInterval_skipped(live, id) == live

\* if (detectionIntervalRef.current) clearInterval(detectionIntervalRef.current)
clearInterval(live, id) == live \ {id}

\* video 'play' event -> handlePlay -> startFaceDetection
PlayEvent ==
  /\ mounted
  /\ playPending
  /\ srcObject \in liveStreams
  /\ playPending' = FALSE
  /\ IF handlePlayReady /\ videoRefCurrent /\ canvasRefCurrent
       THEN /\ canvases' = Append(canvases, setupCanvas)
            /\ canvasChild' = Len(canvases) + 1
            /\ timers' = Append(timers, intervalClosure(Len(canvases) + 1))
            /\ liveTimers' = clearInterval(liveTimers, detectionIntervalRef)
                               \cup {Len(timers) + 1}
            /\ detectionIntervalRef' = Len(timers) + 1
       ELSE UNCHANGED <<canvases, canvasChild, timers, liveTimers,
                        detectionIntervalRef>>
  /\ UNCHANGED <<mounted, reactVars, recorderRef, recordedChunks, streamRef,
                 srcObject, windowVars, loadsPending, cameraPending, nStreams,
                 liveStreams, cycles, recordVars, callVars>>

\* interval callback up to the await: guard, then detectAllFaces(...) starts
DetectionTick(k) ==
  /\ k \in liveTimers
  /\ Len(cycles) < MaxCycles
  /\ videoRefCurrent /\ timers[k].modelsLoaded
  /\ \E res \in Results :
       cycles' = Append(cycles, [timer |-> k, result |-> res,
                                 status |-> "pending"])
  /\ UNCHANGED <<mounted, reactVars, refVars, windowVars, loadsPending,
                 cameraVars, timers, liveTimers, canvases, recordVars,
                 callVars>>

\* faceapi.resizeResults(detections, videoDimensions): each detection is
\* drawn at the scale of the dimensions the closure captured
resizeResults(i, detections, dims) ==
  {[cycle |-> i, face |-> f, scale |-> dims] : f \in detections}

\* a draw that is not preceded by clearRect
clearRect_skipped(content, canvasDims, dims) == content

\* ctx.clearRect(0, 0, width, height): what is left of the old drawings
clearRect(content, canvasDims, dims) ==
  IF dims.width >= canvasDims.width /\ dims.height >= canvasDims.height
    THEN {}
    ELSE content

\* interval callback after the await: setFaceDetected, resize, clear, draw
CycleDone(i) ==
  /\ i \in 1..Len(cycles)
  /\ cycles[i].status = "pending"
  /\ cycles' = [cycles EXCEPT ![i].status = "done"]
  /\ faceDetected' = IF mounted THEN cycles[i].result # {} ELSE faceDetected
  /\ LET cl == timers[cycles[i].timer]
         c == cl.canvas
     IN  canvases' = [canvases EXCEPT ![c].content =
                        clearRect(@, canvases[c].dims, cl.dims)
                          \cup resizeResults(i, cycles[i].result, cl.dims)]
  /\ UNCHANGED <<mounted, recording, videoURL, modelsLoaded, cameraReady,
                 error, recordingTime, videoDimensions, dimsDirty, rendered,
                 refVars, windowVars, loadsPending, cameraVars, timers,
                 liveTimers, recordVars, callVars>>

\* a catch block that reports the failed cycle as "no face"
CycleFailed_reported(i) ==
  /\ i \in 1..Len(cycles)
  /\ cycles[i].status = "pending"
  /\ cycles' = [cycles EXCEPT ![i].status = "failed"]
  /\ faceDetected' = FALSE
  /\ UNCHANGED <<mounted, recording, videoURL, modelsLoaded, cameraReady,
                 error, recordingTime, videoDimensions, dimsDirty, rendered,
                 refVars, windowVars, loadsPending, cameraVars, timers,
                 liveTimers, canvases, recordVars, callVars>>

\* interval callback: the awaited inference rejects; catch logs the error
CycleFailed(i) ==
  /\ i \in 1..Len(cycles)
  /\ cycles[i].status = "pending"
  /\ cycles' = [cycles EXCEPT ![i].status = "failed"]
  /\ UNCHANGED <<mounted, reactVars, refVars, windowVars, loadsPending,
                 cameraVars, timers, liveTimers, canvases, recordVars,
                 callVars>>

\* --------------------------------------------------------------- recording
\* the start button rendered whatever the recording flag
showStartButton_always == TRUE

\* {!recording ? <button onClick={startRecording}> : <button onClick={stopRecording}>}
showStartButton == ~recording

\* a start button that is never disabled
startDisabled_never == FALSE

\* disabled={!modelsLoaded || !cameraReady}
startDisabled == ~rendered.modelsLoaded \/ ~rendered.cameraReady

\* startRecording without its test of the canvas container
canvasReady_unchecked == TRUE

\* startRecording: the negation of (!canvasRef.current?.firstChild)
canvasReady == canvasRefCurrent /\ canvasChild # 0

\* stopRecording without its guard
stopRecordingGuard_unchecked == TRUE

\* stopRecording: (recorderRef.current && recording)
stopRecordingGuard == recorderRef # 0 /\ recording

\* MediaRecorder.stop(): an inactive recorder ignores it; a recording one
\* becomes inactive at once and queues the task that fires its last
\* dataavailable and its stop event
recorderStop(recs, s) ==
  IF recs[s].state = "recording"
    THEN [recs EXCEPT ![s].state = "stopping"]
    ELSE recs

\* a startRecording that raises the recording flag before the encoder is
\* created, so that a throw leaves it raised
startRecording_flagFirst ==
  IF ~canvasReady
    THEN /\ error' = ErrCanvas
         /\ UNCHANGED <<recording, recorderRef, recordedChunks, recorders,
                        delivered>>
    ELSE /\ error' = ErrRecord
         /\ recording' = TRUE
         /\ UNCHANGED <<recorderRef, recordedChunks, recorders, delivered>>

\* body of startRecording
startRecording ==
  IF ~canvasReady
    THEN /\ error' = ErrCanvas
         /\ UNCHANGED <<recording, recorderRef, recordedChunks, recorders,
                        delivered>>
    ELSE \/ /\ canvasChild # 0
            /\ Len(recorders) < MaxSessions
            /\ recorders' = Append(recorders, [state |-> "recording",
                                               canvas |-> canvasChild,
                                               segs |-> 0])
            /\ delivered' = Append(delivered, <<>>)
            /\ recorderRef' = Len(recorders) + 1
            /\ recordedChunks' = <<>>
            /\ recording' = TRUE
            /\ error' = NoError
         \/ \* captureStream or new MediaRecorder threw: catch
            /\ error' = ErrRecord
            /\ UNCHANGED <<recording, recorderRef, recordedChunks, recorders,
                           delivered>>
         \/ \* recorder.start threw, after the refs were assigned: catch
            /\ canvasChild # 0
            /\ Len(recorders) < MaxSessions
            /\ recorders' = Append(recorders, [state |-> "inactive",
                                               canvas |-> canvasChild,
                                               segs |-> 0])
            /\ delivered' = Append(delivered, <<>>)
            /\ recorderRef' = Len(recorders) + 1
            /\ recordedChunks' = <<>>
            /\ error' = ErrRecord
            /\ UNCHANGED recording

\* click on the start button
StartRecordingClick ==
  /\ mounted
  /\ showStartButton
  /\ ~startDisabled
  /\ startRecording
  /\ UNCHANGED <<mounted, videoURL, modelsLoaded, cameraReady, faceDetected,
                 recordingTime, videoDimensions, dimsDirty, rendered,
                 detectionIntervalRef, streamRef, canvasChild, srcObject,
                 windowVars, loadsPending, cameraVars, detectVars, artifacts,
                 liveHandles, callVars>>

\* body of stopRecording
stopRecording ==
  IF stopRecordingGuard
    THEN IF recorderRef = 0
           THEN /\ uncaught' = TRUE
                /\ UNCHANGED <<recorders, recording>>
           ELSE /\ recorders' = recorderStop(recorders, recorderRef)
                /\ recording' = FALSE
                /\ UNCHANGED uncaught
    ELSE UNCHANGED <<recorders, recording, uncaught>>

\* click on the stop button
StopRecordingClick ==
  /\ mounted
  /\ ~showStartButton
  /\ stopRecording
  /\ UNCHANGED <<mounted, videoURL, modelsLoaded, cameraReady, error,
                 faceDetected, recordingTime, videoDimensions, dimsDirty,
                 rendered, refVars, windowVars, loadsPending, cameraVars,
                 detectVars, delivered, artifacts, liveHandles, stopIgnored>>

\* stopRecording called as a function, whatever button is shown
StopRecordingCall ==
  /\ mounted
  /\ stopRecording
  /\ stopIgnored' = (stopIgnored \/ ~stopRecordingGuard)
  /\ UNCHANGED <<mounted, videoURL, modelsLoaded, cameraReady, error,
                 faceDetected, recordingTime, videoDimensions, dimsDirty,
                 rendered, refVars, windowVars, loadsPending, cameraVars,
                 detectVars, delivered, artifacts, liveHandles>>

\* recorder.ondataavailable: if (event.data.size > 0) recordedChunks.current.push(event.data)
ondataavailable(chunks, seg, size) ==
  IF size > 0 THEN Append(chunks, seg) ELSE chunks

\* the segment the n-th dataavailable event of recorder s carries
Segment(s, n) == <<s, n>>

\* timeslice dataavailable event of a recording MediaRecorder
DataAvailable(s) ==
  /\ s \in 1..Len(recorders)
  /\ recorders[s].state = "recording"
  /\ recorders[s].segs < MaxSegments
  /\ \E size \in {0, 1} :
       LET seg == Segment(s, recorders[s].segs + 1)
       IN  /\ recordedChunks' = ondataavailable(recordedChunks, seg, size)
           /\ delivered' = [delivered EXCEPT ![s] =
                              IF size > 0 THEN Append(@, seg) ELSE @]
  /\ recorders' = [recorders EXCEPT ![s].segs = @ + 1]
  /\ UNCHANGED <<mounted, reactVars, recorderRef, detectionIntervalRef,
                 streamRef, canvasChild, srcObject, windowVars, loadsPending,
                 cameraVars, detectVars, artifacts, liveHandles, callVars>>

\* the task queued by MediaRecorder.stop(): the last dataavailable event,
\* then the stop event; onstop seals recordedChunks.current into a blob,
\* creates its object URL, setVideoURL(url), setRecordingTime(0)
RecorderStopTask(s) ==
  /\ s \in 1..Len(recorders)
  /\ recorders[s].state = "stopping"
  /\ \E size \in {0, 1} :
       LET seg == Segment(s, recorders[s].segs + 1)
           chunks == ondataavailable(recordedChunks, seg, size)
       IN  /\ recordedChunks' = chunks
           /\ delivered' = [delivered EXCEPT ![s] =
                              IF size > 0 THEN Append(@, seg) ELSE @]
           /\ artifacts' = Append(artifacts, [session |-> s, blob |-> chunks])
  /\ recorders' = [recorders EXCEPT ![s].state = "inactive",
                                    ![s].segs = @ + 1]
  /\ liveHandles' = liveHandles \cup {Len(artifacts) + 1}
  /\ videoURL' = IF mounted THEN Len(artifacts) + 1 ELSE videoURL
  /\ recordingTime' = IF mounted THEN 0 ELSE recordingTime
  /\ UNCHANGED <<mounted, recording, modelsLoaded, cameraReady, error,
                 faceDetected, videoDimensions, dimsDirty, rendered,
                 recorderRef, detectionIntervalRef, streamRef, canvasChild,
                 srcObject, windowVars, loadsPending, cameraVars, detectVars,
                 callVars>>

\* recording timer effect: setInterval(() => setRecordingTime(prev => prev + 1), 1000)
RecordingTick ==
  /\ mounted
  /\ recording
  /\ recordingTime < MaxTime
  /\ recordingTime' = recordingTime + 1
  /\ UNCHANGED <<mounted, recording, videoURL, modelsLoaded, cameraReady,
                 error, faceDetected, videoDimensions, dimsDirty, rendered,
                 refVars, windowVars, loadsPending, cameraVars, detectVars,
                 recordVars, callVars>>

\* ----------------------------------------------------------------- unmount
\* the effects' return functions run: clearInterval(timer) of the recording
\* timer, removeEventListener, cleanup(); the refs are detached
Unmount ==
  /\ mounted
  /\ mounted' = FALSE
  /\ liveTimers' = cleanupTimers
  /\ liveStreams' = cleanupStreams
  /\ liveHandles' = cleanupHandles
  /\ UNCHANGED <<reactVars, refVars, windowVars, loadsPending, cameraPending,
                 playPending, nStreams, timers, canvases, cycles, recorders,
                 delivered, artifacts, callVars>>

\* ------------------------------------------------------------ specification
Next ==
  \/ LoadSucceeded
  \/ LoadFailed
  \/ CameraGranted
  \/ CameraDenied
  \/ Resize
  \/ Render
  \/ PlayEvent
  \/ \E k \in 1..Len(timers) : DetectionTick(k)
  \/ \E i \in 1..Len(cycles) : CycleDone(i)
  \/ \E i \in 1..Len(cycles) : CycleFailed(i)
  \/ StartRecordingClick
  \/ StopRecordingClick
  \/ \E s \in 1..Len(recorders) : DataAvailable(s)
  \/ \E s \in 1..Len(recorders) : RecorderStopTask(s)
  \/ RecordingTick
  \/ Unmount

\* the complete component: every event source interleaved
Spec == Init /\ [][Next]_vars

\* The specifications below are Spec with some events of the environment left
\* out, which keeps the interleavings of the remaining ones exhaustive.

\* The user records; the window is not resized and no detection tick falls
\* into the run.  Detection ticks touch only faceDetected, cycles and the
\* canvases' drawings, which no recording step reads.
NextRecording ==
  \/ LoadSucceeded
  \/ LoadFailed
  \/ CameraGranted
  \/ CameraDenied
  \/ Render
  \/ PlayEvent
  \/ StartRecordingClick
  \/ StopRecordingClick
  \/ \E s \in 1..Len(recorders) : DataAvailable(s)
  \/ \E s \in 1..Len(recorders) : RecorderStopTask(s)
  \/ RecordingTick
  \/ Unmount

SpecRecording == Init /\ [][NextRecording]_vars

\* The detection loop runs and the window may be resized; the user does not
\* record.
NextDetection ==
  \/ LoadSucceeded
  \/ LoadFailed
  \/ CameraGranted
  \/ CameraDenied
  \/ Resize
  \/ Render
  \/ PlayEvent
  \/ \E k \in 1..Len(timers) : DetectionTick(k)
  \/ \E i \in 1..Len(cycles) : CycleDone(i)
  \/ \E i \in 1..Len(cycles) : CycleFailed(i)
  \/ Unmount

SpecDetection == Init /\ [][NextDetection]_vars

\* The recording controls alone: sessions end before the first timeslice
\* event and the first tick of the recording timer, and stopRecording may
\* also be called directly, whatever button is shown.
NextControls ==
  \/ LoadSucceeded
  \/ LoadFailed
  \/ CameraGranted
  \/ CameraDenied
  \/ Render
  \/ PlayEvent
  \/ StartRecordingClick
  \/ StopRecordingClick
  \/ StopRecordingCall
  \/ \E s \in 1..Len(recorders) : RecorderStopTask(s)
  \/ Unmount

SpecControls == Init /\ [][NextControls]_vars

\* ------------------------------------------------------------------ claims
ActiveRecorders == {s \in 1..Len(recorders) : recorders[s].state = "recording"}

DetectionRunning == detectionIntervalRef \in liveTimers

CameraActive == streamRef \in liveStreams

\* C1: startRecording while the canvas container has no child sets the
\* 'Canvas not ready for recording' error, creates no recorder, leaves
\* recording false and leaves the chunks and videoURL as they were.
C1_StartWithoutCanvasFails ==
  [][(StartRecordingClick /\ canvasChild = 0)
       => /\ error' = ErrCanvas
          /\ recording' = FALSE
          /\ UNCHANGED <<recorders, recorderRef, recordedChunks, videoURL>>]_vars

C1_Witness ==
  /\ error = ErrCanvas
  /\ canvasChild = 0
  /\ recorders = <<>>
  /\ ~recording

\* a step of the recording sub-state, or the render that commits the videoURL
\* a session's onstop has set, with the effects that render runs
RecordingTransition ==
  \/ StartRecordingClick
  \/ StopRecordingClick
  \/ \E s \in 1..Len(recorders) : RecorderStopTask(s)
  \/ (Render /\ rendered.videoURL # videoURL)

\* C2: no recording transition, nor any effect it triggers, cancels the live
\* detection timer or stops the tracks of the held capture stream.
C2_RecordingLeavesDetectionAlone ==
  [][RecordingTransition
       => /\ DetectionRunning => DetectionRunning'
          /\ CameraActive => CameraActive']_vars

\* C3: at most one recorder is active (started and not stopped) in every state.
C3_AtMostOneActiveRecorder == Cardinality(ActiveRecorders) <= 1

C3_Witness ==
  /\ Len(recorders) = 2
  /\ recorders[1].state = "stopping"
  /\ recorders[2].state = "recording"

\* C4: the blob a session's onstop seals is the sequence, in arrival order, of
\* exactly the non-empty segments that session's ondataavailable received.
C4_ArtifactIsOwnSegments ==
  \A h \in 1..Len(artifacts) :
    artifacts[h].blob = delivered[artifacts[h].session]

\* C5: at most one object URL created by onstop is live (not revoked) at any
\* time.
C5_AtMostOneLiveHandle == Cardinality(liveHandles) <= 1

\* C6: once the component has no render pending, every handle older than the
\* latest one has been revoked, and videoURL holds the latest handle, which is
\* live.
C6_EarlierHandlesRevoked ==
  (mounted /\ ~NeedsRender /\ artifacts # <<>>)
    => /\ liveHandles = {Len(artifacts)}
       /\ videoURL = Len(artifacts)

\* C7: stopRecording called while no recorder is active raises nothing,
\* seals no artifact and leaves recording, videoURL, the chunks,
\* recordingTime, the recorders and the error as they were.
C7_StopWhenIdleIsNoOp ==
  [][(StopRecordingCall /\ ActiveRecorders = {})
       => /\ uncaught' = FALSE
          /\ UNCHANGED <<recording, videoURL, recordedChunks, recordingTime,
                         recorders, artifacts, liveHandles, error>>]_vars

C7_Witness ==
  /\ stopIgnored
  /\ recorderRef # 0
  /\ recorders[recorderRef].state = "inactive"
  /\ ~recording

\* C8: when no detection cycle is in flight and the most recently started
\* cycle has delivered its result, faceDetected is true exactly if that
\* result is non-empty.
C8_FaceDetectedIsLatestStarted ==
  (/\ mounted
   /\ cycles # <<>>
   /\ \A i \in 1..Len(cycles) : cycles[i].status # "pending"
   /\ cycles[Len(cycles)].status = "done")
    => (faceDetected <=> cycles[Len(cycles)].result # {})

\* C9: right after a cycle's clear and draw, the canvas it draws on holds
\* exactly that cycle's detections, at the scale of its closure, and nothing
\* of any other cycle.
C9_CanvasHoldsOneCycle ==
  [][\A i \in 1..Len(cycles) :
       CycleDone(i)
         => LET cl == timers[cycles[i].timer]
            IN  canvases'[cl.canvas].content
                  = resizeResults(i, cycles[i].result, cl.dims)]_vars

C9_Witness ==
  /\ Len(cycles) = 2
  /\ cycles[1].timer = cycles[2].timer
  /\ cycles[1].status = "done" /\ cycles[1].result # {}
  /\ cycles[2].status = "done" /\ cycles[2].result # {}

\* C10: a detection timer is live, or an inference has been started, only if
\* modelsLoaded and cameraReady are both true, in the state and in the
\* closures of the last render.
C10_DetectionGated ==
  (liveTimers # {} \/ cycles # <<>>)
    => /\ modelsLoaded /\ cameraReady
       /\ rendered.modelsLoaded /\ rendered.cameraReady

C10_Witness ==
  /\ liveTimers # {}
  /\ \E i \in 1..Len(cycles) : cycles[i].status = "pending"

\* every asynchronous step of startup has been taken: both loads and every
\* getUserMedia call have settled, the 'play' event of the attached stream has
\* been delivered and every state update has been rendered
StartupSettled ==
  /\ mounted
  /\ loadsPending = 0 /\ cameraPending = 0
  /\ ~playPending
  /\ ~NeedsRender

\* C11: when the models are loaded, the camera is ready and the attached
\* stream has played, the detection loop has been started by the time startup
\* has settled, whatever the order of 'play' and the render that publishes
\* modelsLoaded and cameraReady.
C11_DetectionStartsOnceReady ==
  (/\ StartupSettled
   /\ modelsLoaded /\ cameraReady
   /\ srcObject \in liveStreams)
    => DetectionRunning

\* C12: at most one detection interval timer is live in every state, across
\* repeated 'play' events, resizes and camera re-acquisitions.
C12_AtMostOneLiveTimer == Cardinality(liveTimers) <= 1

C12_Witness ==
  /\ Len(timers) >= 2
  /\ liveTimers = {Len(timers)}
  /\ nResizes >= 1
  /\ nStreams >= 2

\* C13: a cycle whose inference throws leaves the detection timer live, sets
\* no error and leaves faceDetected and every overlay canvas as they were.
C13_InferenceErrorContained ==
  [][\A i \in 1..Len(cycles) :
       CycleFailed(i)
         => /\ cycles[i].timer \in liveTimers
              => cycles[i].timer \in liveTimers'
            /\ UNCHANGED <<liveTimers, detectionIntervalRef, error,
                           faceDetected, canvases, canvasChild>>]_vars

C13_Witness ==
  /\ Len(cycles) = 2
  /\ cycles[1].status = "done" /\ cycles[1].result # {}
  /\ cycles[2].status = "failed"
  /\ cycles[2].timer \in liveTimers
  /\ faceDetected
  /\ error = NoError

\* C14: once the model load has failed, the error message of loadModels is
\* shown, modelsLoaded is false, no camera request has been or is being made,
\* no detection timer exists, the start button is disabled and no recording
\* has been attempted, in every later state.
C14_ModelLoadFailureAbortsStartup ==
  (loadsPending = 0 /\ ~modelsLoaded)
    => /\ mounted => error = ErrModels
       /\ cameraPending = 0 /\ nStreams = 0 /\ ~cameraReady
       /\ timers = <<>> /\ cycles = <<>>
       /\ startDisabled
       /\ recorders = <<>>

C14_Witness ==
  /\ mounted
  /\ loadsPending = 0 /\ ~modelsLoaded
  /\ error = ErrModels
  /\ ~NeedsRender

\* the camera has been denied and never granted: the error message is shown,
\* cameraReady is false, no stream is held, the start button is disabled and
\* no detection timer runs
CameraFailed ==
  /\ modelsLoaded
  /\ nStreams = 0
  /\ error = ErrCamera
  /\ ~cameraReady
  /\ streamRef = 0
  /\ startDisabled
  /\ liveTimers = {}

\* C15: when the models are loaded and getUserMedia is denied, the component
\* enters CameraFailed and every later step leaves it there.
C15_CameraDenialIsFinal ==
  [][((CameraDenied /\ mounted /\ nStreams = 0) \/ CameraFailed)
       => CameraFailed']_vars

\* C16: once the current videoDimensions are rendered, the overlay canvas in
\* the container has exactly those dimensions, and the live detection timer
\* rescales and clears with those dimensions.
C16_OverlayMatchesVideoDimensions ==
  (mounted /\ ~dimsDirty)
    => /\ canvasChild # 0
         => canvases[canvasChild].dims = videoDimensions
       /\ DetectionRunning
         => timers[detectionIntervalRef].dims = videoDimensions

\* C17: once the component is unmounted and every getUserMedia call has
\* settled, no track of any stream the component acquired is live.
C17_NoLiveStreamAfterTeardown ==
  (~mounted /\ cameraPending = 0) => liveStreams = {}

\* C18: once the component is unmounted, no recorder is active, so no further
\* segment is collected.
C18_TeardownStopsRecording ==
  ~mounted => ActiveRecorders = {}

\* C19: a start click whose encoder creation or start throws shows the
\* recording error, leaves recording false, keeps the detection timer live
\* and leaves faceDetected, the overlay canvases and the artifact handle
\* unchanged.
C19_FailedStartChangesNothingElse ==
  [][(StartRecordingClick /\ canvasReady /\ error' = ErrRecord)
       => /\ recording' = FALSE
          /\ DetectionRunning => DetectionRunning'
          /\ UNCHANGED <<liveTimers, detectionIntervalRef, faceDetected,
                         canvases, canvasChild, videoURL, artifacts,
                         liveHandles>>]_vars

C19_Witness ==
  /\ error = ErrRecord
  /\ ~recording
  /\ DetectionRunning
  /\ videoURL # 0 /\ videoURL \in liveHandles

\* C20: a cycle that completes after its timer was cancelled changes neither
\* faceDetected nor the canvas currently in the container of the mounted
\* component.
C20_CancelledCycleDiscarded ==
  [][\A i \in 1..Len(cycles) :
       (CycleDone(i) /\ cycles[i].timer \notin liveTimers)
         => /\ faceDetected' = faceDetected
            /\ (canvasRefCurrent /\ canvasChild # 0)
                 => canvases'[canvasChild] = canvases[canvasChild]]_vars

\* C21: loadModels is invoked once, by the mount effect: no later step of the
\* component invokes it again.
C21_LoadModelsInvokedOnce ==
  [][loadsPending' <= loadsPending]_vars

\* C22: recordingTime is 0 when a session starts, a tick adds exactly 1 to
\* it, no other step changes it while recording, and it does not grow while
\* not recording.
C22_RecordingTimeCountsTicks ==
  [][/\ (StartRecordingClick /\ recording') => recordingTime' = 0
     /\ RecordingTick => recordingTime' = recordingTime + 1
     /\ (recording /\ recording' /\ ~RecordingTick)
          => recordingTime' = recordingTime
     /\ ~recording => recordingTime' <= recordingTime]_vars

\* C23: while the component is mounted, the canvas an active recorder captures
\* is the canvas in the container, and it is the canvas the live detection
\* timer clears and draws on.
C23_RecorderCapturesLiveCanvas ==
  mounted
    => \A s \in ActiveRecorders :
         /\ recorders[s].canvas = canvasChild
         /\ DetectionRunning
              => timers[detectionIntervalRef].canvas = recorders[s].canvas

====
